---- MODULE Spec2Model ----
(***************************************************************************)
(* A model of actix/activations_torch.py: the two numerical primitives     *)
(* torch_lambertw_principal and torch_ellipj_cn, and the nn.Module          *)
(* activation units that call them, as a state machine over tensors of a   *)
(* finite-range number format.                                             *)
(*                                                                         *)
(* Numbers.  A torch float has a finite range and a finite resolution, and *)
(* follows IEEE 754: a result too large for the range is +inf or -inf, and *)
(* inf - inf, 0 * inf, inf / inf and 0 / 0 are NaN.  The model keeps that  *)
(* arithmetic and scales the format down: a finite number is an integer    *)
(* count of 1/Scale units with magnitude at most FMax, and PInf, NInf and  *)
(* NaN are three values outside that range.                                *)
(***************************************************************************)
EXTENDS Integers, Sequences, FiniteSets, TLC

\* Resolution of the number format: units per 1.0.
Scale == 1000
\* Largest finite magnitude of the number format, in whole numbers.
FMaxInt == 1000

FMax == FMaxInt * Scale
PInf == FMax + 1
NInf == 0 - (FMax + 1)
NaN == FMax + 2
One == Scale

IsNaN(a) == a = NaN
IsInf(a) == a = PInf \/ a = NInf
IsFinite(a) == a >= 0 - FMax /\ a <= FMax

Abs0(n) == IF n < 0 THEN 0 - n ELSE n
Sgn(a) == IF a < 0 THEN 0 - 1 ELSE IF a > 0 THEN 1 ELSE 0

\* A finite intermediate result n (in units) as a value of the format.
Fit(n) == IF n > FMax THEN PInf ELSE IF n < 0 - FMax THEN NInf ELSE n

\* IEEE comparisons: every comparison with NaN is false.
FLt(a, b) == ~IsNaN(a) /\ ~IsNaN(b) /\ a < b
FLe(a, b) == ~IsNaN(a) /\ ~IsNaN(b) /\ a <= b
FGe(a, b) == FLe(b, a)

FNeg(a) == IF IsNaN(a) THEN NaN ELSE 0 - a

FAbs(a) == IF IsNaN(a) THEN NaN ELSE Abs0(a)

FAdd(a, b) ==
    IF IsNaN(a) \/ IsNaN(b) THEN NaN
    ELSE IF IsInf(a) /\ IsInf(b) THEN (IF a = b THEN a ELSE NaN)
    ELSE IF IsInf(a) THEN a
    ELSE IF IsInf(b) THEN b
    ELSE Fit(a + b)

FSub(a, b) == FAdd(a, FNeg(b))

\* |a| * |b| / Scale rounded to nearest, for finite magnitudes, without an
\* intermediate beyond the format's range: the product is formed from the
\* whole and the fractional part of a.
MulMag(a, b) ==
    LET ah == a \div Scale
        al == a % Scale
    IN  IF ah > 0 /\ b > FMax \div ah THEN PInf
        ELSE Fit(ah * b + (al * b + Scale \div 2) \div Scale)

FMul(a, b) ==
    IF IsNaN(a) \/ IsNaN(b) THEN NaN
    ELSE IF IsInf(a) \/ IsInf(b)
         THEN (IF a = 0 \/ b = 0 THEN NaN
               ELSE IF Sgn(a) * Sgn(b) > 0 THEN PInf ELSE NInf)
    ELSE LET p == MulMag(Abs0(a), Abs0(b))
         IN  IF Sgn(a) * Sgn(b) < 0 THEN 0 - p ELSE p

FDiv(a, b) ==
    IF IsNaN(a) \/ IsNaN(b) THEN NaN
    ELSE IF IsInf(a) /\ IsInf(b) THEN NaN
    ELSE IF IsInf(a) THEN (IF Sgn(a) * (IF b < 0 THEN 0 - 1 ELSE 1) > 0 THEN PInf ELSE NInf)
    ELSE IF IsInf(b) THEN 0
    ELSE IF b = 0 THEN (IF a = 0 THEN NaN ELSE IF a > 0 THEN PInf ELSE NInf)
    ELSE LET q == Fit((Abs0(a) * Scale + Abs0(b) \div 2) \div Abs0(b))
         IN  IF Sgn(a) * Sgn(b) < 0 THEN 0 - q ELSE q

\* ---------------------------------------------------------------------
\* torch.exp and torch.log on the number format.

\* 1e-38 (line 10) and 1e-20 (line 15): both are below the resolution of the
\* format next to the values they are added to (z >= 1 where the logarithm
\* is selected, exp(w)*(w+1) >= 1), so the sums absorb them.
Eps38 == 0
Eps20 == 0
\* 1e-7 (line 399), the guard of the units' denominators: below the
\* resolution of the format.
Eps7 == 0

\* Terms of the exponential series kept.
ExpTerms == 12

RECURSIVE ExpSeries(_, _, _, _)
\* sum of r^n / n! for n = i..ExpTerms, term being r^(i-1)/(i-1)!, 0 <= r <= Scale
ExpSeries(r, i, term, acc) ==
    IF i > ExpTerms \/ term = 0 THEN acc
    ELSE LET t == (term * r + (i * Scale) \div 2) \div (i * Scale)
         IN  ExpSeries(r, i + 1, t, acc + t)

ExpUnit(r) == ExpSeries(r, 1, Scale, Scale)

RECURSIVE ExpPow(_, _)
\* acc * e^q for q >= 0, saturating at +inf
ExpPow(acc, q) ==
    IF q = 0 \/ acc = PInf THEN acc
    ELSE ExpPow(MulMag(acc, ExpUnit(Scale)), q - 1)

ExpPos(a) == ExpPow(ExpUnit(a % Scale), a \div Scale)

\* torch.exp
FExp(a) ==
    IF IsNaN(a) THEN NaN
    ELSE IF a = PInf THEN PInf
    ELSE IF a = NInf THEN 0
    ELSE IF a >= 0 THEN ExpPos(a)
    ELSE FDiv(One, ExpPos(0 - a))

\* Terms of the logarithm's series kept.
LogTerms == 9

RECURSIVE AtanhSeries(_, _, _, _)
\* sum of t^(2i+1)/(2i+1) for i = i..LogTerms, pw being t^(2i+1)
AtanhSeries(t2, i, pw, acc) ==
    IF i > LogTerms \/ pw = 0 THEN acc
    ELSE AtanhSeries(t2, i + 1, (pw * t2 + Scale \div 2) \div Scale,
                     acc + (pw + (2 * i + 1) \div 2) \div (2 * i + 1))

\* ln y for Scale <= y < e * Scale: 2 * atanh((y - 1) / (y + 1))
LogUnit(y) ==
    LET t == ((y - Scale) * Scale + (y + Scale) \div 2) \div (y + Scale)
        t2 == (t * t + Scale \div 2) \div Scale
    IN  2 * AtanhSeries(t2, 0, t, 0)

RECURSIVE LogGe1(_, _)
\* ln y + q for y >= Scale
LogGe1(y, q) ==
    IF y >= ExpUnit(Scale)
    THEN LogGe1((y * Scale + ExpUnit(Scale) \div 2) \div ExpUnit(Scale), q + 1)
    ELSE q * Scale + LogUnit(y)

\* torch.log
FLog(a) ==
    IF IsNaN(a) THEN NaN
    ELSE IF a = PInf THEN PInf
    ELSE IF a < 0 THEN NaN
    ELSE IF a = 0 THEN NInf
    ELSE IF a >= Scale THEN LogGe1(a, 0)
    ELSE 0 - LogGe1((Scale * Scale + a \div 2) \div a, 0)

\* torch.clamp(a, min=lo): a NaN stays NaN.
ClampMin(a, lo) == IF IsNaN(a) THEN NaN ELSE IF a < lo THEN lo ELSE a

\* torch.clamp(a, lo, hi): a NaN stays NaN.
Clamp(a, lo, hi) ==
    IF IsNaN(a) THEN NaN ELSE IF a < lo THEN lo ELSE IF a > hi THEN hi ELSE a

\* torch.sigmoid, torch.tanh, F.softplus and torch.sinh: library functions,
\* which saturate instead of overflowing where the true value is in range.
FSigmoid(a) == FDiv(One, FAdd(One, FExp(FNeg(a))))

FTanh(a) ==
    LET e2 == FExp(FAdd(a, a))
    IN  IF e2 = PInf THEN One ELSE FDiv(FSub(e2, One), FAdd(e2, One))

FSoftplus(a) ==
    IF FExp(a) = PInf THEN a ELSE FLog(FAdd(One, FExp(a)))

FSinh(a) == FDiv(FSub(FExp(a), FExp(FNeg(a))), 2 * One)

\* ---------------------------------------------------------------------
\* Tensors: a shape (the sequence of dimensions; <<>> is a 0-dimensional
\* scalar) and the elements in row-major order.

RECURSIVE Prod(_)
Prod(s) == IF s = <<>> THEN 1 ELSE Head(s) * Prod(Tail(s))

Numel(shape) == Prod(shape)

Tensor(shape, data) == [shape |-> shape, data |-> data]

\* No tensor: the value of a frame variable outside its call.
NoTensor == Tensor(<<0>>, <<>>)

Max2(a, b) == IF a >= b THEN a ELSE b

\* The dimension of shape s at position j when s is right-aligned to rank r.
DimAt(s, j, r) == IF j <= r - Len(s) THEN 1 ELSE s[j - (r - Len(s))]

\* torch's broadcasting of two shapes (each pair of dimensions is equal, or
\* one of them is 1).
BroadcastShape(s1, s2) ==
    LET r == Max2(Len(s1), Len(s2))
    IN  [j \in 1..r |-> IF DimAt(s1, j, r) = 1 THEN DimAt(s2, j, r) ELSE DimAt(s1, j, r)]

\* The stride of dimension j of a shape: the product of the later dimensions.
Stride(s, j) == Prod(SubSeq(s, j + 1, Len(s)))

RECURSIVE SumTo(_, _)
SumTo(f, n) == IF n = 0 THEN 0 ELSE f[n] + SumTo(f, n - 1)

\* The element of operand t that output element i (1-based, of shape out) reads.
SourceIndex(t, out, i) ==
    LET r == Len(out)
        off == r - Len(t.shape)
        coord(j) == ((i - 1) \div Stride(out, j)) % out[j]
        part == [j \in 1..Len(t.shape) |->
                    IF t.shape[j] = 1 THEN 0 ELSE coord(j + off) * Stride(t.shape, j)]
    IN  1 + SumTo(part, Len(t.shape))

\* A unary elementwise torch function, or a binary one with a Python scalar.
TMap(F(_), t) == Tensor(t.shape, [i \in 1..Len(t.data) |-> F(t.data[i])])

\* A binary elementwise torch function of two tensors, broadcast.
TZip(Op(_, _), a, b) ==
    LET out == BroadcastShape(a.shape, b.shape)
    IN  Tensor(out, [i \in 1..Numel(out) |->
                        Op(a.data[SourceIndex(a, out, i)], b.data[SourceIndex(b, out, i)])])

TAdd(a, b) == TZip(FAdd, a, b)
TMul(a, b) == TZip(FMul, a, b)
TDiv(a, b) == TZip(FDiv, a, b)
TNeg(a) == TMap(FNeg, a)
TExp(a) == TMap(FExp, a)
TSquare(a) == TMul(a, a)
\* tensor (op) Python scalar c
TAddS(a, c) == TMap(LAMBDA v : FAdd(v, c), a)
TDivS(a, c) == TMap(LAMBDA v : FDiv(v, c), a)
\* torch.ones_like
OnesLike(a) == TMap(LAMBDA v : One, a)

\* ---------------------------------------------------------------------
\* torch_lambertw_principal (lines 8-19)

\* iterations=8, the default of line 8
DefaultIterations == 8

\* lines 10-11 for one element: the seed, clamped
SeedElem(z) == ClampMin(IF FLt(z, One) THEN z ELSE FLog(FAdd(z, Eps38)), 0)

\* the intermediates of one pass of the loop body for one element
Ew(w) == FExp(w)
\* line 14 with - typed for *: w - ew - z
WEwMinusZ_Typo(w, z) == FSub(FSub(w, Ew(w)), z)
WEwMinusZ(w, z) == FSub(FMul(w, Ew(w)), z)
Denominator(w) == FAdd(FMul(Ew(w), FAdd(w, One)), Eps20)
DeltaW(w, z) == FDiv(WEwMinusZ(w, z), Denominator(w))

\* lines 13-18 for one element
StepElem(w, z) == ClampMin(FSub(w, DeltaW(w, z)), 0)

\* lines 10-11
LwSeed(zt) == TMap(SeedElem, zt)

\* lines 13-18
LwStepT(wt, zt) == TZip(StepElem, wt, zt)

RECURSIVE LwIterate(_, _, _)
\* the loop of lines 12-18, n passes from wt
LwIterate(wt, zt, n) == IF n = 0 THEN wt ELSE LwIterate(LwStepT(wt, zt), zt, n - 1)

\* the value torch_lambertw_principal(zt, n) returns
LambertW(zt, n) == LwIterate(LwSeed(zt), zt, n)

\* ---------------------------------------------------------------------
\* torch_ellipj_cn (lines 21-37)

\* num_terms=4, the default of line 21
DefaultNumTerms == 4

\* line 26
Term1(u) == TDivS(TNeg(TSquare(u)), 2 * One)
\* lines 29-30
Term2(u, m) ==
    TMul(TDivS(TMul(TSquare(u), TSquare(u)), 24 * One),
         TMap(LAMBDA v : FAdd(One, FMul(4 * One, v)), m))
\* lines 33-34
Term3(u, m) ==
    TMul(TNeg(TDivS(TMul(TMul(TSquare(u), TSquare(u)), TSquare(u)), 720 * One)),
         TMap(LAMBDA v : FAdd(FAdd(One, FMul(44 * One, v)), FMul(16 * One, FMul(v, v))), m))

\* line 36
ClampCn(t) == TMap(LAMBDA v : Clamp(v, 0 - One, One), t)

\* lines 25, 28 and 32 with the terms counted from 0: num_terms > 0, > 1, > 2
EllipjCn_CountFromZero(u, m, n) ==
    LET cn0 == OnesLike(u)
        cn1 == IF n > 0 THEN TAdd(cn0, Term1(u)) ELSE cn0
        cn2 == IF n > 1 THEN TAdd(cn1, Term2(u, m)) ELSE cn1
        cn3 == IF n > 2 THEN TAdd(cn2, Term3(u, m)) ELSE cn2
    IN  ClampCn(cn3)

\* the value torch_ellipj_cn(u, m, num_terms) returns
EllipjCn(u, m, n) ==
    LET cn0 == OnesLike(u)
        cn1 == IF n > 1 THEN TAdd(cn0, Term1(u)) ELSE cn0
        cn2 == IF n > 2 THEN TAdd(cn1, Term2(u, m)) ELSE cn1
        cn3 == IF n > 3 THEN TAdd(cn2, Term3(u, m)) ELSE cn2
    IN  ClampCn(cn3)

\* ---------------------------------------------------------------------
\* The activation units (nn.Module): parameters and forward.

\* An nn.Parameter of shape (1,) holding v.
Param(v) == Tensor(<<1>>, <<v>>)

\* The parameters after __init__ of the units modelled.
DefaultParams ==
    [ OptimA |-> [alpha |-> One, beta |-> One \div 2, gamma_param |-> One,
                  delta |-> One \div 2, lambda_param |-> One],
      PLW    |-> [alpha |-> One, beta |-> One, gamma |-> One],
      EG     |-> [m_param |-> One \div 2] ]

\* OptimATorch.forward (lines 54-57)
OptimAForward(ps, xt) ==
    LET term1 == TMul(Param(ps.alpha), TMap(FTanh, TMul(Param(ps.beta), xt)))
        term2 == TMul(TMul(Param(ps.gamma_param),
                           TMap(FSoftplus, TMul(Param(ps.delta), xt))),
                      TMap(FSigmoid, TMul(Param(ps.lambda_param), xt)))
    IN  TAdd(term1, term2)

\* ParametricLambertWActivationTorch.forward, line 184
PLWArg(ps, xt) ==
    TMul(TMap(FAbs, Param(ps.beta)), TExp(TMul(Param(ps.gamma), xt)))

\* ParametricLambertWActivationTorch.forward, line 186
PLWResult(ps, xt, lw) == TMul(TMul(Param(ps.alpha), xt), lw)

\* ParametricLambertWActivationTorch.forward (lines 183-186) as one function
PLWForward(ps, xt) ==
    PLWResult(ps, xt, LambertW(PLWArg(ps, xt), DefaultIterations))

\* EllipticGaussianActivationTorch.forward, line 296
MClamped(ps) == TMap(LAMBDA v : Clamp(v, 0, One), Param(ps.m_param))

\* EllipticGaussianActivationTorch.forward, lines 297-298
EGResult(xt, cn) == TMul(xt, TExp(TNeg(cn)))

\* EllipticGaussianActivationTorch.forward (lines 295-298) as one function
EGForward(ps, xt) == EGResult(xt, EllipjCn(xt, MClamped(ps), DefaultNumTerms))

\* SinhGateTorch.forward (line 305)
SinhGateForward(xt) == TMul(xt, TMap(FSinh, xt))

\* LogisticWActivationTorch.forward, line 396
LogWArg(xt) == TExp(xt)

\* LogisticWActivationTorch.forward, lines 398-399
LogWResult(xt, lw) ==
    TDiv(xt, TAddS(TMap(LAMBDA v : FAdd(One, v), TExp(TMul(TNeg(xt), lw))), Eps7))

\* LogisticWActivationTorch.forward (lines 395-399) as one function
LogWForward(xt) == LogWResult(xt, LambertW(LogWArg(xt), DefaultIterations))

\* ---------------------------------------------------------------------
\* The inputs explored.

\* Largest num_terms passed to torch_ellipj_cn.
MaxTerms == 6
\* Largest iteration count passed to torch_lambertw_principal besides the default.
MaxSmallIter == 2

\* z of a direct call of torch_lambertw_principal: both sides of the seed
\* switch at 1, of e, and of the largest z whose z * ln z is in range.
ZVals == {0 - One, 0, (9 * One) \div 10, One, (3 * One) \div 2, 3 * One,
          FMax \div 5, FMax}
IterVals == 0..MaxSmallIter \cup {DefaultIterations}

\* x of a forward call, and u of a direct call of torch_ellipj_cn.
XVals == {0 - 2 * One, 0, One \div 2, 6 * One, 8 * One}
X2Vals == {0 - 2 * One, One \div 2, 6 * One}
\* m of a direct call of torch_ellipj_cn.
MVals == {0 - One, 0, One, 2 * One}

\* Tensors of shape (), (1,), (2,) and (2,1).
Scalars(V) == {Tensor(<<>>, <<v>>) : v \in V}
Vec1(V) == {Tensor(<<1>>, <<v>>) : v \in V}
Vec2(V) == {Tensor(<<2>>, <<a, b>>) : a \in V, b \in V}
Col2(V) == {Tensor(<<2, 1>>, <<a, b>>) : a \in V, b \in V}

ZTensors == Vec2(ZVals)
XTensors == Scalars(XVals) \cup Vec1(XVals) \cup Vec2(X2Vals) \cup Col2(X2Vals)
UTensors == Scalars(XVals) \cup Vec2(X2Vals)
MTensors == Vec1(MVals) \cup Scalars({One \div 2})

\* The parameters an optimizer step writes here, and the values it writes.
Settable ==
    {<<"PLW", "beta">>, <<"PLW", "gamma">>, <<"EG", "m_param">>}
SettableVals(unit, name) ==
    IF name = "beta" THEN {0 - One, 0, One}
    ELSE IF name = "gamma" THEN {One, 2 * One}
    ELSE {0 - One \div 2, One \div 2, 2 * One}

\* ---------------------------------------------------------------------
\* The state.

VARIABLES
    pc,          \* "idle", "lw_loop" (inside torch_lambertw_principal), "done"
    caller,      \* the top-level call in progress or just returned
    params,      \* every unit's raw parameters
    x,           \* the input tensor of the forward call
    z,           \* torch_lambertw_principal: its argument z
    iterations,  \*   its argument iterations
    k,           \*   the passes of the loop made
    w,           \*   its local w
    u,           \* torch_ellipj_cn: its argument u
    m,           \*   its argument m
    num_terms,   \*   its argument num_terms
    out          \* the tensor the top-level call returned

vars == <<pc, caller, params, x, z, iterations, k, w, u, m, num_terms, out>>

lwFrame == <<z, iterations, k, w>>
cnFrame == <<u, m, num_terms>>

NoLw == z' = NoTensor /\ iterations' = 0 /\ k' = 0 /\ w' = NoTensor
NoCn == u' = NoTensor /\ m' = NoTensor /\ num_terms' = 0

Init ==
    /\ pc = "idle"
    /\ caller = "none"
    /\ params = DefaultParams
    /\ x = NoTensor
    /\ z = NoTensor /\ iterations = 0 /\ k = 0 /\ w = NoTensor
    /\ u = NoTensor /\ m = NoTensor /\ num_terms = 0
    /\ out = NoTensor

Ready == pc = "idle"

\* The caller of a finished top-level call drops its tensors.
Release ==
    /\ pc = "done"
    /\ pc' = "idle" /\ caller' = "none"
    /\ x' = NoTensor /\ out' = NoTensor
    /\ NoLw /\ NoCn
    /\ UNCHANGED params

\* The external optimizer writes one parameter between forward passes.
SetParameter(unit, name, v) ==
    /\ Ready
    /\ params' = [params EXCEPT ![unit][name] = v]
    /\ UNCHANGED <<pc, caller, x, lwFrame, cnFrame, out>>

\* Entry of torch_lambertw_principal(zt, n) for the caller c: lines 10-11.
LwEnter(c, zt, n) ==
    /\ pc' = "lw_loop" /\ caller' = c
    /\ z' = zt /\ iterations' = n /\ k' = 0
    /\ w' = LwSeed(zt)
    /\ out' = NoTensor
    /\ NoCn

\* A direct call torch_lambertw_principal(zt, n).
CallLambertW(zt, n) ==
    /\ Ready
    /\ LwEnter("lambertw", zt, n)
    /\ x' = NoTensor
    /\ UNCHANGED params

\* One pass of the loop, lines 12-18.
LwStep ==
    /\ pc = "lw_loop" /\ k < iterations
    /\ w' = LwStepT(w, z)
    /\ k' = k + 1
    /\ UNCHANGED <<pc, caller, params, x, z, iterations, cnFrame, out>>

\* line 19 reached by a break out of the loop once a pass changes nothing
LwReturn_BreakWhenConverged ==
    /\ pc = "lw_loop" /\ caller = "lambertw"
    /\ (k = iterations \/ LwStepT(w, z) = w)
    /\ out' = w
    /\ pc' = "done"
    /\ UNCHANGED <<caller, params, x, lwFrame, cnFrame>>

\* line 19, returning to a direct caller
LwReturn ==
    /\ pc = "lw_loop" /\ k = iterations /\ caller = "lambertw"
    /\ out' = w
    /\ pc' = "done"
    /\ UNCHANGED <<caller, params, x, lwFrame, cnFrame>>

\* A direct call torch_ellipj_cn(ut, mt, n), lines 21-37.
CallEllipjCn(ut, mt, n) ==
    /\ Ready
    /\ u' = ut /\ m' = mt /\ num_terms' = n
    /\ out' = EllipjCn(ut, mt, n)
    /\ pc' = "done" /\ caller' = "cn"
    /\ x' = NoTensor
    /\ NoLw
    /\ UNCHANGED params

\* OptimATorch.forward(xt)
ApplyOptimA(xt) ==
    /\ Ready
    /\ x' = xt
    /\ out' = OptimAForward(params.OptimA, xt)
    /\ pc' = "done" /\ caller' = "OptimA"
    /\ NoLw /\ NoCn
    /\ UNCHANGED params

\* SinhGateTorch.forward(xt)
ApplySinhGate(xt) ==
    /\ Ready
    /\ x' = xt
    /\ out' = SinhGateForward(xt)
    /\ pc' = "done" /\ caller' = "SinhGate"
    /\ NoLw /\ NoCn
    /\ UNCHANGED params

\* line 296 with the in-place clamp_: the raw parameter itself is clamped
ApplyEG_InPlaceClamp(xt) ==
    /\ Ready
    /\ x' = xt
    /\ u' = xt /\ m' = MClamped(params.EG) /\ num_terms' = DefaultNumTerms
    /\ out' = EGResult(xt, EllipjCn(xt, MClamped(params.EG), DefaultNumTerms))
    /\ pc' = "done" /\ caller' = "EG"
    /\ NoLw
    /\ params' = [params EXCEPT !.EG.m_param = Clamp(params.EG.m_param, 0, One)]

\* EllipticGaussianActivationTorch.forward(xt), lines 295-298
ApplyEG(xt) ==
    /\ Ready
    /\ x' = xt
    /\ u' = xt /\ m' = MClamped(params.EG) /\ num_terms' = DefaultNumTerms
    /\ out' = EGResult(xt, EllipjCn(xt, MClamped(params.EG), DefaultNumTerms))
    /\ pc' = "done" /\ caller' = "EG"
    /\ NoLw
    /\ UNCHANGED params

\* ParametricLambertWActivationTorch.forward(xt), lines 184-185: to the call
ApplyPLW(xt) ==
    /\ Ready
    /\ x' = xt
    /\ LwEnter("PLW", PLWArg(params.PLW, xt), DefaultIterations)
    /\ UNCHANGED params

\* ParametricLambertWActivationTorch.forward, line 186: from the call's return
FinishPLW ==
    /\ pc = "lw_loop" /\ k = iterations /\ caller = "PLW"
    /\ out' = PLWResult(params.PLW, x, w)
    /\ pc' = "done"
    /\ UNCHANGED <<caller, params, x, lwFrame, cnFrame>>

\* LogisticWActivationTorch.forward(xt), lines 396-397: to the call
ApplyLogW(xt) ==
    /\ Ready
    /\ x' = xt
    /\ LwEnter("LogW", LogWArg(xt), DefaultIterations)
    /\ UNCHANGED params

\* LogisticWActivationTorch.forward, lines 398-399: from the call's return
FinishLogW ==
    /\ pc = "lw_loop" /\ k = iterations /\ caller = "LogW"
    /\ out' = LogWResult(x, w)
    /\ pc' = "done"
    /\ UNCHANGED <<caller, params, x, lwFrame, cnFrame>>

Next ==
    \/ \E s \in Settable : \E v \in SettableVals(s[1], s[2]) : SetParameter(s[1], s[2], v)
    \/ \E zt \in ZTensors, n \in IterVals : CallLambertW(zt, n)
    \/ LwStep
    \/ LwReturn
    \/ \E ut \in UTensors, mt \in MTensors, n \in 0..MaxTerms : CallEllipjCn(ut, mt, n)
    \/ \E xt \in XTensors : ApplyOptimA(xt)
    \/ \E xt \in XTensors : ApplySinhGate(xt)
    \/ \E xt \in XTensors : ApplyEG(xt)
    \/ \E xt \in XTensors : ApplyPLW(xt)
    \/ FinishPLW
    \/ \E xt \in XTensors : ApplyLogW(xt)
    \/ FinishLogW
    \/ Release

Spec == Init /\ [][Next]_vars

\* =====================================================================
\* Properties.

Idx(t) == 1..Len(t.data)
InLw == pc = "lw_loop" \/ (pc = "done" /\ caller \in {"lambertw", "PLW", "LogW"})
\* a finite non-negative argument
FiniteNonNeg(a) == IsFinite(a) /\ a >= 0
\* |w * exp(w) - z|
Residual(a, b) == FAbs(FSub(FMul(a, FExp(a)), b))

\* C1: for every z >= 0 and every k >= 0 the residual |w*exp(w) - z| after
\* pass k+1 of the loop is no larger than after pass k (the clamped seed
\* being pass 0).
C1_ResidualNeverGrows ==
    [][(pc = "lw_loop" /\ k' = k + 1) =>
         \A i \in Idx(z) : FiniteNonNeg(z.data[i]) =>
             FLe(Residual(w'.data[i], z.data[i]), Residual(w.data[i], z.data[i]))]_vars

\* C2: torch_lambertw_principal is monotonically non-decreasing in z, for
\* every iteration count: of two elements 0 <= z1 <= z2 of one call, the
\* result for z1 is at most the result for z2.
C2_MonotoneInZ ==
    (pc = "done" /\ caller = "lambertw") =>
        \A i, j \in Idx(z) :
            (FiniteNonNeg(z.data[i]) /\ FiniteNonNeg(z.data[j]) /\ z.data[i] <= z.data[j])
                => FLe(out.data[i], out.data[j])

\* C3: for every finite z >= 0 and every iteration count, w is finite after
\* the seed and after every pass, every intermediate of every pass is
\* finite, and the divisor is not zero.
C3_AlwaysFinite ==
    pc = "lw_loop" =>
        \A i \in Idx(z) : FiniteNonNeg(z.data[i]) =>
            /\ IsFinite(w.data[i])
            /\ k < iterations =>
                /\ IsFinite(Ew(w.data[i]))
                /\ IsFinite(FMul(w.data[i], Ew(w.data[i])))
                /\ IsFinite(WEwMinusZ(w.data[i], z.data[i]))
                /\ IsFinite(Denominator(w.data[i]))
                /\ Denominator(w.data[i]) # 0
                /\ IsFinite(DeltaW(w.data[i], z.data[i]))
                /\ IsFinite(StepElem(w.data[i], z.data[i]))

\* C4: for z = 0 the seed is 0 and stays 0 through every pass, so the result
\* is 0 for every iteration count.
C4_ZeroAtZero ==
    /\ InLw => \A i \in Idx(z) : z.data[i] = 0 => w.data[i] = 0
    /\ (pc = "done" /\ caller = "lambertw") =>
           \A i \in Idx(z) : z.data[i] = 0 => out.data[i] = 0

\* C4's case: a call with z = 0 and the default 8 passes has returned 0.
C4_Witness ==
    /\ pc = "done" /\ caller = "lambertw"
    /\ iterations = DefaultIterations /\ k = DefaultIterations
    /\ z.data[1] = 0 /\ out.data[1] = 0

\* C5: the value torch_ellipj_cn returns is in [-1, 1] for every u, every m
\* and every num_terms.
C5_CnInUnitInterval ==
    (pc = "done" /\ caller = "cn") =>
        \A i \in Idx(out) : FLe(0 - One, out.data[i]) /\ FLe(out.data[i], One)

\* C6: torch_ellipj_cn includes the u^2 term iff num_terms > 1, the u^4 term
\* iff num_terms > 2 and the u^6 term iff num_terms > 3, and reads num_terms
\* no further: at num_terms <= 1 the result is 1 everywhere, and from 4 on it
\* is the three-term result.
C6_TermsByNumTerms ==
    (pc = "done" /\ caller = "cn") =>
        /\ num_terms <= 1 => out = OnesLike(u)
        /\ num_terms = 2 => out = ClampCn(TAdd(OnesLike(u), Term1(u)))
        /\ num_terms = 3 =>
               out = ClampCn(TAdd(TAdd(OnesLike(u), Term1(u)), Term2(u, m)))
        /\ num_terms >= 4 =>
               out = ClampCn(TAdd(TAdd(TAdd(OnesLike(u), Term1(u)), Term2(u, m)),
                                  Term3(u, m)))

\* C6's case: a call with num_terms beyond 4 has returned a value that the
\* series terms moved away from 1.
C6_Witness ==
    /\ pc = "done" /\ caller = "cn"
    /\ num_terms > DefaultNumTerms
    /\ u.data[1] = One \div 2
    /\ out.data[1] # One /\ IsFinite(out.data[1])

\* The units, and what forward returns for a unit from its own parameters.
Units == {"OptimA", "SinhGate", "EG", "PLW", "LogW"}
UnitForward(c, ps, xt) ==
    CASE c = "OptimA" -> OptimAForward(ps.OptimA, xt)
      [] c = "SinhGate" -> SinhGateForward(xt)
      [] c = "EG" -> EGForward(ps.EG, xt)
      [] c = "PLW" -> PLWForward(ps.PLW, xt)
      [] c = "LogW" -> LogWForward(xt)

\* C7: forward is shape-preserving and elementwise for every unit and every
\* input shape: the output has the shape of x, and its element i is what the
\* unit returns for element i of x alone.
C7_ShapePreserved ==
    (pc = "done" /\ caller \in Units) =>
        /\ out.shape = x.shape
        /\ Len(out.data) = Len(x.data)
        /\ \A i \in Idx(x) :
               out.data[i] = UnitForward(caller, params, Tensor(<<1>>, <<x.data[i]>>)).data[1]

C9_IterateNonNegative ==
    /\ InLw => \A i \in Idx(w) : ~IsNaN(z.data[i]) => FGe(w.data[i], 0)
    /\ (pc = "done" /\ caller = "lambertw") =>
           \A i \in Idx(out) : ~IsNaN(z.data[i]) => FGe(out.data[i], 0)

\* C10: the units call the primitives inside their preconditions, for every
\* x and every raw parameter value: the Lambert W solver with z >= 0, and
\* torch_ellipj_cn with m in [0, 1].
C10_PreconditionsEstablished ==
    /\ (caller \in {"PLW", "LogW"} /\ pc \in {"lw_loop", "done"}) =>
           \A i \in Idx(z) : FGe(z.data[i], 0)
    /\ (caller = "EG" /\ pc = "done") =>
           \A i \in Idx(m) : FGe(m.data[i], 0) /\ FLe(m.data[i], One)

\* C11: torch_lambertw_principal makes exactly `iterations` passes of its
\* loop and then returns, whatever z is and whether or not w still changes,
\* and the call always terminates: the pass counter k stays within
\* 0..iterations, every step inside the loop is one pass over every element
\* and takes k up by one (so iterations - k, which is never negative, falls
\* with every step), the loop is left only with k = iterations and into the
\* return, a loop state always has its next step (a pass while k <
\* iterations, the return to its caller at k = iterations), and the units
\* call with the default count.
C11_ExactlyIterationsPasses ==
    /\ [](InLw => (k >= 0 /\ k <= iterations))
    /\ []((pc = "done" /\ caller \in {"lambertw", "PLW", "LogW"}) => k = iterations)
    /\ []((pc = "done" /\ caller \in {"PLW", "LogW"}) => iterations = DefaultIterations)
    /\ [](pc = "lw_loop" =>
            (k < iterations \/ (k = iterations /\ caller \in {"lambertw", "PLW", "LogW"})))
    /\ [][(pc = "lw_loop" /\ pc' = "lw_loop") =>
             (k' = k + 1 /\ w' = LwStepT(w, z) /\ z' = z /\ iterations' = iterations)]_vars
    /\ [][pc = "lw_loop" => pc' \in {"lw_loop", "done"}]_vars
    /\ [][(pc = "lw_loop" /\ pc' = "done") =>
             (k = iterations /\ k' = k /\ w' = w /\ iterations' = iterations)]_vars

\* C11's case: a call with the default 8 passes has returned after 8 passes
\* although its w had stopped changing (z = 0 is converged from the seed on).
C11_Witness ==
    /\ pc = "done" /\ caller = "lambertw"
    /\ iterations = DefaultIterations /\ k = DefaultIterations
    /\ z.data[1] = 0 /\ z.data[2] = 3 * One
    /\ LwStepT(w, z) = w

====
